---- MODULE Spec2Model ----
(***************************************************************************)
(* Model of packages/resources/src/ApolloApi.ts: the ApolloApi construct,  *)
(* a subclass of the generic Api construct that serves GET and POST at one *)
(* root path from a single Lambda integration.                             *)
(*                                                                         *)
(* Optional JavaScript values are modelled as sequences of length at most  *)
(* one: <<>> is undefined, <<v>> is the value v.                           *)
(***************************************************************************)
EXTENDS Naturals, Sequences, FiniteSets, TLC

VARIABLES
  id,               \* constructor argument: the construct id
  props,            \* constructor argument: <<>> or <<ApolloApiProps record>>
  local,            \* App.of(scope).local
  pc,               \* position of the construction
  error,            \* <<>> or <<message of the Error thrown>>
  spawnCalls,       \* invocations of spawn.sync, in order
  result,           \* <<>> or <<value returned by spawn.sync>>
  delegated,        \* <<>> or <<props handed to super(scope, id, ...)>>
  pendingRoutes,    \* routes the Api constructor still has to add
  routesData,       \* Api: route key -> integration of the registered route
  functions,        \* Api: route key -> function registered for the route
  created,          \* integrations made by Api.createFunctionIntegration
  lambdaIntegration,\* this.lambdaIntegration
  rootPath,         \* this.rootPath
  thisProps,        \* this.props
  returned,         \* what the last method call did and returned
  extraCalls        \* number of addRoutes requests after construction

vars == <<id, props, local, pc, error, spawnCalls, result, delegated,
          pendingRoutes, routesData, functions, created, lambdaIntegration,
          rootPath, thisProps, returned, extraCalls>>

\* Number of routes added through Api.addRoutes after construction.
MaxExtraCalls == 2

-----------------------------------------------------------------------------
(* Inputs *)

Ids == {"GraphqlApi", "Api2"}

\* FunctionDefinition values given as handler strings; "" is a falsy one.
Handlers == {"src/lambda.handler", "src/graphql.handler"}
ServerValues == {<<>>, <<"">>} \cup {<<h>> : h \in Handlers}

RootPathValues == {<<>>, <<"/">>, <<"/graphql">>}

ApiPayloadFormatVersion == [V1 |-> "1.0", V2 |-> "2.0"]
PayloadValues == {<<>>, <<ApiPayloadFormatVersion.V1>>, <<ApiPayloadFormatVersion.V2>>}

\* An explicit route map is an ordered list of entries; the empty object is
\* still an object.
RoutesValues == {<<>>, << <<>> >>,
                 << <<[key |-> "GET /notes", value |-> "src/lambda.handler"]>> >>}

CodegenValues == {<<>>, <<"">>, <<"codegen.yml">>}

\* One of the generic Api fields that ApolloApi does not look at.
CorsValues == {<<>>, <<TRUE>>}

ApolloApiProps ==
  [server : ServerValues, rootPath : RootPathValues,
   defaultPayloadFormatVersion : PayloadValues, routes : RoutesValues,
   codegen : CodegenValues, cors : CorsValues]

PropsValues == {<<>>} \cup {<<p>> : p \in ApolloApiProps}

\* Exit statuses of the codegen tool; <<>> is the null status of a process
\* ended by a signal.
StatusValues == {<<>>, <<0>>, <<1>>, <<2>>}

\* Routes requested through addRoutes after construction.
ExtraRouteKeys == {"GET /extra", "OPTIONS /graphql", "PUT /"}

-----------------------------------------------------------------------------
(* JavaScript helpers *)

\* Truthiness of an optional string: undefined and "" are falsy.
TruthyStr(o) == o # <<>> /\ o[1] # ""

\* Truthiness of an optional object: only undefined is falsy.
TruthyObj(o) == o # <<>>

\* `${o}` in a template literal.
Str(o) == IF o = <<>> THEN "undefined" ELSE o[1]

\* `props || {}` followed by a field read.
Field(p, f) == IF p = <<>> THEN <<>> ELSE p[1][f]

-----------------------------------------------------------------------------
(* ApolloApi constructor, piece by piece *)

\* Variant: the root path is always "/", whatever the caller gave.
DefaultRootPathFixed(o) == "/"

\* `rootPath = "/"` in the destructuring: the default applies to undefined only.
DefaultRootPath(o) == IF o = <<>> THEN "/" ELSE o[1]

\* `...restProps`: what is left after server, rootPath and
\* defaultPayloadFormatVersion are taken out.
RestProps(p) == [f \in {"routes", "codegen", "cors"} |-> Field(p, f)]

\* `if (!server)`
MissingServer(server) == ~TruthyStr(server)

MissingServerError(i) == "Missing \"server\" in the \"" \o i \o "\" ApolloApi"

\* Variant: an empty route map is let through.
HasRoutesNonEmpty(routes) == routes # <<>> /\ routes[1] # <<>>

\* `if (routes)`
HasRoutes(routes) == TruthyObj(routes)

RoutesError(i) ==
  "Please use the \"server\" option instead of the \"routes\" to configure the handler for the \""
    \o i \o "\" ApolloApi"

\* Variant: the local flag is not consulted.
ShouldRunCodegenAnywhere(codegen, isLocal) == TruthyStr(codegen)

\* `if (props.codegen) { ... if (!app.local) {`
ShouldRunCodegen(codegen, isLocal) == TruthyStr(codegen) /\ ~isLocal

SpawnCall(codegen) ==
  [command |-> "npx", args |-> <<"graphql-codegen", "-c", codegen[1]>>,
   stdio |-> "inherit"]

\* Variant: `if (result.status)`, which lets a null status through.
CodegenFailedTruthy(res) == res.status # <<>> /\ res.status # <<0>>

\* `if (result.status !== 0)`
CodegenFailed(res) == res.status # <<0>>

CodegenError(i) == "Failed to generate the schema for the \"" \o i \o "\" ApolloApi"

\* Variant: the routes literal written POST first.
RouteMapPostFirst(path, server) ==
  << [key |-> "POST " \o path, value |-> server],
     [key |-> "GET " \o path, value |-> server] >>

\* The routes literal: GET first, then POST, both to the server.
RouteMap(path, server) ==
  << [key |-> "GET " \o path, value |-> server],
     [key |-> "POST " \o path, value |-> server] >>

\* Variant: the caller's payload-format version is dropped.
PayloadFormatVersionFixed(v) == ApiPayloadFormatVersion.V1

\* `defaultPayloadFormatVersion || ApiPayloadFormatVersion.V1`
PayloadFormatVersion(v) == IF TruthyStr(v) THEN v[1] ELSE ApiPayloadFormatVersion.V1

\* The object literal handed to super(): later keys override the spread.
SuperProps(p) ==
  [defaultPayloadFormatVersion |->
     PayloadFormatVersion(Field(p, "defaultPayloadFormatVersion")),
   routes |-> RouteMap(DefaultRootPath(Field(p, "rootPath")), Field(p, "server")[1])]
  @@ RestProps(p)

Throw(msg) ==
  /\ pc' = "failed"
  /\ error' = <<msg>>

\* Variant: the codegen run is started before the validations.
ValidateCodegenFirst ==
  /\ pc = "start"
  /\ spawnCalls' =
       IF ShouldRunCodegen(Field(props, "codegen"), local)
         THEN Append(spawnCalls, SpawnCall(Field(props, "codegen")))
         ELSE spawnCalls
  /\ IF MissingServer(Field(props, "server"))
       THEN Throw(MissingServerError(id))
     ELSE IF HasRoutes(Field(props, "routes"))
       THEN Throw(RoutesError(id))
     ELSE IF ShouldRunCodegen(Field(props, "codegen"), local)
       THEN pc' = "codegen" /\ UNCHANGED error
     ELSE pc' = "super" /\ UNCHANGED error
  /\ UNCHANGED <<id, props, local, result, delegated, pendingRoutes, routesData,
                 functions, created, lambdaIntegration, rootPath, thisProps,
                 returned, extraCalls>>

\* Lines 36-65: destructuring, the two validations, and the start of the
\* synchronous codegen run.
Validate ==
  /\ pc = "start"
  /\ IF MissingServer(Field(props, "server"))
       THEN Throw(MissingServerError(id)) /\ UNCHANGED spawnCalls
     ELSE IF HasRoutes(Field(props, "routes"))
       THEN Throw(RoutesError(id)) /\ UNCHANGED spawnCalls
     ELSE IF ShouldRunCodegen(Field(props, "codegen"), local)
       THEN /\ spawnCalls' = Append(spawnCalls, SpawnCall(Field(props, "codegen")))
            /\ pc' = "codegen"
            /\ UNCHANGED error
     ELSE /\ pc' = "super"
          /\ UNCHANGED <<error, spawnCalls>>
  /\ UNCHANGED <<id, props, local, result, delegated, pendingRoutes, routesData,
                 functions, created, lambdaIntegration, rootPath, thisProps,
                 returned, extraCalls>>

\* Lines 59-71: spawn.sync returns with the tool's exit status.
CodegenExit(status) ==
  /\ pc = "codegen"
  /\ result' = <<[status |-> status]>>
  /\ IF CodegenFailed(result'[1])
       THEN Throw(CodegenError(id))
       ELSE pc' = "super" /\ UNCHANGED error
  /\ UNCHANGED <<id, props, local, spawnCalls, delegated, pendingRoutes,
                 routesData, functions, created, lambdaIntegration, rootPath,
                 thisProps, returned, extraCalls>>

\* Lines 74-82: super(scope, id, {...}); the Api constructor takes the route
\* map and adds its routes one by one, in the order of the map.
Delegate ==
  /\ pc = "super"
  /\ delegated' = <<SuperProps(props)>>
  /\ pendingRoutes' = delegated'[1].routes
  /\ pc' = "routes"
  /\ UNCHANGED <<id, props, local, error, spawnCalls, result, routesData,
                 functions, created, lambdaIntegration, rootPath, thisProps,
                 returned, extraCalls>>

-----------------------------------------------------------------------------
(* The integration hook and the generic Api construct around it *)

\* Api.createFunctionIntegration: the default logic makes a new integration
\* for the route's function.
DefaultIntegration(routeKey, routeProps) ==
  [serial |-> Len(created) + 1, routeKey |-> routeKey,
   function |-> routeProps.function]

\* Variant: the stored integration is never reused.
CacheMissAlways(slot) == TRUE

\* `if (!this.lambdaIntegration)`
CacheMiss(slot) == ~TruthyObj(slot)

\* ApolloApi.createFunctionIntegration, lines 119-135.  On a miss it calls
\* super.createFunctionIntegration, which also records the function under
\* the route key, and stores the integration; it returns the stored one.
CreateFunctionIntegration(routeKey, routeProps) ==
  /\ IF CacheMiss(lambdaIntegration)
       THEN /\ lambdaIntegration' = <<DefaultIntegration(routeKey, routeProps)>>
            /\ created' = Append(created, DefaultIntegration(routeKey, routeProps))
            /\ functions' = (routeKey :> routeProps.function) @@ functions
       ELSE UNCHANGED <<lambdaIntegration, created, functions>>
  /\ returned' = [op |-> "createFunctionIntegration", routeKey |-> routeKey,
                  routeProps |-> routeProps,
                  delegated |-> CacheMiss(lambdaIntegration),
                  value |-> lambdaIntegration'[1]]

\* Api.addRoute: asks the hook for the route's integration and registers the
\* route with it.
AddRoute(routeKey, routeProps) ==
  /\ CreateFunctionIntegration(routeKey, routeProps)
  /\ routesData' = (routeKey :> returned'.value) @@ routesData

\* The Api constructor adds the next route of the map it was given.
ConstructRoute ==
  /\ pc = "routes"
  /\ pendingRoutes # <<>>
  /\ AddRoute(Head(pendingRoutes).key, [function |-> Head(pendingRoutes).value])
  /\ pendingRoutes' = Tail(pendingRoutes)
  /\ UNCHANGED <<id, props, local, pc, error, spawnCalls, result, delegated,
                 rootPath, thisProps, extraCalls>>

\* Lines 84-85: super() has returned.
Finish ==
  /\ pc = "routes"
  /\ pendingRoutes = <<>>
  /\ rootPath' = <<DefaultRootPath(Field(props, "rootPath"))>>
  /\ thisProps' = props
  /\ pc' = "constructed"
  /\ UNCHANGED <<id, props, local, error, spawnCalls, result, delegated,
                 pendingRoutes, routesData, functions, created,
                 lambdaIntegration, returned, extraCalls>>

\* Api.addRoutes called on the finished construct with one more route.
AddRoutes(routeKey, fn) ==
  /\ pc = "constructed"
  /\ extraCalls < MaxExtraCalls
  /\ routeKey \notin DOMAIN routesData
  /\ AddRoute(routeKey, [function |-> fn])
  /\ extraCalls' = extraCalls + 1
  /\ UNCHANGED <<id, props, local, pc, error, spawnCalls, result, delegated,
                 pendingRoutes, rootPath, thisProps>>

-----------------------------------------------------------------------------
(* Accessors *)

\* Api.getFunction
GetFunction(routeKey) ==
  IF routeKey \in DOMAIN functions THEN <<functions[routeKey]>> ELSE <<>>

\* Variant: the getter looks up the POST route.
ServerFunctionKeyPost(path) == "POST " \o Str(path)

\* The key looked up by the serverFunction getter, line 99.
ServerFunctionKey(path) == "GET " \o Str(path)

ServerFunctionError(i) ==
  "Failed to get \"serverFunction\" in the \"" \o i \o "\" ApolloApi"

\* get serverFunction, lines 98-109
ServerFunction ==
  /\ pc = "constructed"
  /\ LET serverFn == GetFunction(ServerFunctionKey(rootPath))
     IN  returned' =
           IF ~TruthyStr(serverFn)
             THEN [op |-> "serverFunction", threw |-> TRUE,
                   value |-> ServerFunctionError(id)]
             ELSE [op |-> "serverFunction", threw |-> FALSE,
                   value |-> serverFn[1]]
  /\ UNCHANGED <<id, props, local, pc, error, spawnCalls, result, delegated,
                 pendingRoutes, routesData, functions, created,
                 lambdaIntegration, rootPath, thisProps, extraCalls>>

\* Api.getConstructMetadata
ParentMetadata == [type |-> "Api", data |-> [routes |-> DOMAIN routesData]]

\* Variant: local.codegen reports the root path.
ConstructMetadataRootPath(parent, p) ==
  [local |-> [codegen |-> p[1].rootPath]] @@ parent

\* The object literal of lines 90-95: the parent's fields, then local.
ConstructMetadata(parent, p) ==
  [local |-> [codegen |-> p[1].codegen]] @@ parent

\* getConstructMetadata, lines 88-96
GetConstructMetadata ==
  /\ pc = "constructed"
  /\ returned' = [op |-> "getConstructMetadata",
                  value |-> ConstructMetadata(ParentMetadata, thisProps)]
  /\ UNCHANGED <<id, props, local, pc, error, spawnCalls, result, delegated,
                 pendingRoutes, routesData, functions, created,
                 lambdaIntegration, rootPath, thisProps, extraCalls>>

-----------------------------------------------------------------------------
(* Specification *)

NoReturn == [op |-> "none"]

Init ==
  /\ id \in Ids
  /\ props \in PropsValues
  /\ local \in BOOLEAN
  /\ pc = "start"
  /\ error = <<>>
  /\ spawnCalls = <<>>
  /\ result = <<>>
  /\ delegated = <<>>
  /\ pendingRoutes = <<>>
  /\ routesData = <<>>
  /\ functions = <<>>
  /\ created = <<>>
  /\ lambdaIntegration = <<>>
  /\ rootPath = <<>>
  /\ thisProps = <<>>
  /\ returned = NoReturn
  /\ extraCalls = 0

Next ==
  \/ Validate
  \/ \E status \in StatusValues : CodegenExit(status)
  \/ Delegate
  \/ ConstructRoute
  \/ Finish
  \/ \E routeKey \in ExtraRouteKeys, fn \in Handlers : AddRoutes(routeKey, fn)
  \/ ServerFunction
  \/ GetConstructMetadata

Spec == Init /\ [][Next]_vars

-----------------------------------------------------------------------------
(* Vocabulary of the properties, stated on the caller's configuration *)

ServerOmitted == props = <<>> \/ props[1].server = <<>>

ServerSupplied == props # <<>> /\ props[1].server \in {<<h>> : h \in Handlers}

RoutesSupplied == props # <<>> /\ props[1].routes # <<>>

CodegenSet == props # <<>> /\ props[1].codegen \notin {<<>>, <<"">>}

\* The configuration passes both validations.
ValidConfig == ServerSupplied /\ ~RoutesSupplied

\* The caller's root path, or "/" when the caller gave none.
CallerRootPath == IF props[1].rootPath = <<>> THEN "/" ELSE props[1].rootPath[1]

NothingDelegated ==
  /\ delegated = <<>>
  /\ DOMAIN routesData = {}
  /\ created = <<>>
  /\ lambdaIntegration = <<>>

-----------------------------------------------------------------------------
(* Properties *)

\* C1: on one instance, whatever sequence of integration requests is made,
\* at most one integration is ever created, every registered route resolves
\* to it, and a finished construct has GET and POST at rootPath registered.
C1_SingleIntegration ==
  /\ Len(created) <= 1
  /\ created # <<>> => lambdaIntegration = <<created[1]>>
  /\ \A k \in DOMAIN routesData :
       lambdaIntegration # <<>> /\ routesData[k] = lambdaIntegration[1]
  /\ pc = "constructed" =>
       {"GET " \o CallerRootPath, "POST " \o CallerRootPath} \subseteq DOMAIN routesData

C1_Witness ==
  /\ pc = "constructed"
  /\ extraCalls >= 2
  /\ Cardinality(DOMAIN routesData) >= 4

\* C2: for a valid configuration the route map handed to the Api construct
\* has exactly the two entries "GET <rootPath>" and "POST <rootPath>", with
\* rootPath the caller's value or "/", both mapping to the supplied server;
\* and a valid configuration whose codegen is absent or succeeded is
\* delegated.
C2_RouteMap ==
  /\ delegated # <<>> =>
       /\ ValidConfig
       /\ Len(delegated[1].routes) = 2
       /\ delegated[1].routes[1] =
            [key |-> "GET " \o CallerRootPath, value |-> props[1].server[1]]
       /\ delegated[1].routes[2] =
            [key |-> "POST " \o CallerRootPath, value |-> props[1].server[1]]
       /\ delegated[1].routes[1].key # delegated[1].routes[2].key
  /\ (ValidConfig /\ pc \notin {"start", "codegen", "super"}
        /\ (result = <<>> \/ result[1].status = <<0>>)) => delegated # <<>>

C2_Witness ==
  /\ delegated # <<>>
  /\ props[1].rootPath = <<"/graphql">>
  /\ result # <<>>

\* C3: when server is omitted (props absent included), whatever routes,
\* codegen and local are, construction fails with the missing-server error
\* naming the construct id, with no codegen invocation and nothing
\* delegated.
C3_MissingServer ==
  (ServerOmitted /\ pc # "start") =>
     /\ pc = "failed"
     /\ error = <<"Missing \"server\" in the \"" \o id \o "\" ApolloApi">>
     /\ spawnCalls = <<>>
     /\ result = <<>>
     /\ NothingDelegated

C3_Witness ==
  /\ pc = "failed"
  /\ props # <<>>
  /\ props[1].server = <<>>
  /\ props[1].codegen = <<"codegen.yml">>
  /\ props[1].routes # <<>>
  /\ ~local

\* C4: when both server and an explicit route map are supplied,
\* construction fails with the error pointing at the server option, and
\* nothing reaches the Api construct.
C4_RoutesRejected ==
  (ServerSupplied /\ RoutesSupplied /\ pc # "start") =>
     /\ pc = "failed"
     /\ error = <<"Please use the \"server\" option instead of the \"routes\" to configure the handler for the \""
                    \o id \o "\" ApolloApi">>
     /\ spawnCalls = <<>>
     /\ NothingDelegated

C4_Witness ==
  /\ pc = "failed"
  /\ ServerSupplied
  /\ props[1].routes = << <<>> >>

\* C5: the codegen tool is invoked exactly once when the configuration
\* passed both validations, codegen is set and the context is not local,
\* and never otherwise; an invocation has finished by the time the route
\* map is delegated.
C5_CodegenOnce ==
  /\ pc = "start" => spawnCalls = <<>>
  /\ pc # "start" =>
       Len(spawnCalls) = IF ValidConfig /\ CodegenSet /\ ~local THEN 1 ELSE 0
  /\ \A i \in 1..Len(spawnCalls) :
       spawnCalls[i].args = <<"graphql-codegen", "-c", props[1].codegen[1]>>
  /\ (delegated # <<>> /\ spawnCalls # <<>>) => result # <<>>

C5_Witness ==
  /\ pc = "constructed"
  /\ Len(spawnCalls) = 1
  /\ result # <<>>

\* C6: with server and codegen set in non-local mode, any exit status other
\* than 0 makes construction throw the codegen error naming the construct
\* id with nothing delegated; status 0 lets construction go on.
C6_CodegenFailure ==
  result # <<>> =>
     /\ ValidConfig /\ CodegenSet /\ ~local
     /\ result[1].status # <<0>> =>
          /\ pc = "failed"
          /\ error = <<"Failed to generate the schema for the \"" \o id \o "\" ApolloApi">>
          /\ NothingDelegated
     /\ result[1].status = <<0>> =>
          /\ pc \in {"super", "routes", "constructed"}
          /\ error = <<>>
          /\ pc # "super" => delegated # <<>>

C6_Witness ==
  /\ pc = "failed"
  /\ result # <<>>
  /\ result[1].status = <<>>

\* C7: on a finished construct the serverFunction getter never throws and
\* returns the handler supplied as server, found under "GET <rootPath>" for
\* the very rootPath (default "/" included) the route map was derived from.
C7_ServerFunction ==
  /\ pc = "constructed" =>
       /\ rootPath = <<CallerRootPath>>
       /\ "GET " \o rootPath[1] = delegated[1].routes[1].key
  /\ returned.op = "serverFunction" =>
       /\ ~returned.threw
       /\ returned.value = props[1].server[1]

C7_Witness ==
  /\ returned.op = "serverFunction"
  /\ props[1].rootPath = <<>>
  /\ extraCalls >= 1

\* C8: getConstructMetadata returns every field of the parent's metadata
\* plus local.codegen equal to the configured codegen path (undefined when
\* none), and changes nothing of the construct.
C8_Metadata ==
  [][returned'.op = "getConstructMetadata" =>
       /\ \A f \in DOMAIN ParentMetadata :
            f \in DOMAIN returned'.value /\ returned'.value[f] = ParentMetadata[f]
       /\ DOMAIN returned'.value = DOMAIN ParentMetadata \cup {"local"}
       /\ returned'.value.local = [codegen |-> props[1].codegen]
       /\ UNCHANGED <<lambdaIntegration, rootPath, thisProps, props, routesData,
                      functions, created, delegated, pc, error>>]_vars

C8_Witness ==
  /\ returned.op = "getConstructMetadata"
  /\ returned.value.local.codegen = <<"codegen.yml">>
  /\ props[1].rootPath = <<"/graphql">>

\* C9: the configuration delegated to the Api construct carries the
\* caller's payload-format version when one was supplied and V1 otherwise,
\* and the caller's other Api fields unchanged, next to the derived routes.
C9_PayloadFormat ==
  delegated # <<>> =>
     /\ delegated[1].defaultPayloadFormatVersion =
          IF props[1].defaultPayloadFormatVersion # <<>>
            THEN props[1].defaultPayloadFormatVersion[1]
            ELSE "1.0"
     /\ delegated[1].cors = props[1].cors
     /\ Len(delegated[1].routes) = 2

C9_Witness ==
  /\ delegated # <<>>
  /\ props[1].defaultPayloadFormatVersion = <<"2.0">>
  /\ props[1].cors = <<TRUE>>

\* C10: integration requests come GET first, then POST; the first request
\* delegates to the default creation logic with its own route parameters
\* and stores the result, every later request returns the stored handle
\* without delegating and whatever its parameters; so the default logic
\* has run exactly once when construction succeeds, and the cache slot,
\* once set, never changes.
C10_CacheOnce ==
  [][/\ lambdaIntegration # <<>> =>
          lambdaIntegration' = lambdaIntegration /\ created' = created
     /\ routesData' # routesData =>
          /\ returned'.op = "createFunctionIntegration"
          /\ returned'.value = lambdaIntegration'[1]
          /\ returned'.delegated = (lambdaIntegration = <<>>)
          /\ lambdaIntegration = <<>> =>
               /\ returned'.routeKey = "GET " \o CallerRootPath
               /\ created' = <<returned'.value>>
               /\ returned'.value.routeKey = returned'.routeKey
               /\ returned'.value.function = returned'.routeProps.function
               /\ pendingRoutes'[1].key = "POST " \o CallerRootPath
     /\ pc' = "constructed" => Len(created') = 1 /\ lambdaIntegration' # <<>>
    ]_vars

C10_Witness ==
  /\ pc = "constructed"
  /\ returned.op = "createFunctionIntegration"
  /\ ~returned.delegated
  /\ returned.routeKey \in ExtraRouteKeys
  /\ returned.routeProps.function # props[1].server[1]
  /\ returned.value = created[1]

====
